---- MODULE Spec2Model ----
\* Verification model of the tow-truck booking flow:
\*   src/src/pages/BookingForm.jsx   (form state, pricing effect, handleBookingProcess)
\*   src/src/hooks/useBookings.js    (handleSupabaseError and the admin CRUD calls)
\* The hosted store, the payment gateway and the notification channel are
\* environments whose answers are drawn nondeterministically.
EXTENDS Integers, Sequences, FiniteSets

\* ---------------------------------------------------------------- bounds
MaxTime == 1          \* clock values 0..MaxTime
MaxDistance == 1      \* route distances 0..MaxDistance (km)
MaxRuns == 1          \* submissions of the booking form
MaxAdminCalls == 1    \* calls into the admin query layer
MaxAttempts == 2      \* submissions in the resubmission specification

\* ---------------------------------------------------------------- constants
maxRetries == 3       \* useBookings.js:26
backoffMs == 1000     \* useBookings.js:39
StandardBasePrice == 50
StandardPerKm == 2
NoCost == -1          \* the value of an arithmetic expression over a missing rate (NaN)

VARIABLES
  now,               \* wall clock (new Date())
  page,              \* current route: "booking", "login", "confirmation"
  session,           \* useSupabaseAuth().session: "none" or a user id
  stripeReady,       \* useStripe() and useElements() are both non-null
  formData,          \* useState: [vehicleSize, pickupDateTime]
  isLoading,         \* useState
  distance,          \* useState
  totalCost,         \* useState
  isTestMode,        \* useState
  costEffectPending, \* the [distance, vehicleSize] effect has not yet run for this render
  run,               \* the current/latest run of handleBookingProcess
  nextRun,           \* number of runs started
  services,          \* store collection 'services'
  bookings,          \* store collection 'bookings'
  nextId,            \* the store's row identifier sequence
  nextKey,           \* uuidv4() values issued so far
  admin,             \* the current/latest call of the admin query layer
  adminCalls         \* number of admin calls started

vars == <<now, page, session, stripeReady, formData, isLoading, distance, totalCost,
          isTestMode, costEffectPending, run, nextRun, services, bookings, nextId,
          nextKey, admin, adminCalls>>

formVars == <<formData, distance, totalCost, isTestMode, costEffectPending>>
envVars == <<now, session, stripeReady>>
storeVars == <<services, bookings, nextId>>
adminVars == <<admin, adminCalls>>

\* ---------------------------------------------------------------- pricing
VehicleSizes == {"", "Medium"}

\* utils/towTruckSelection: vehicle size bucket -> tow-truck category
getTowTruckType(vehicleSize) ==
  IF vehicleSize = "Medium" THEN "Standard" ELSE "Unmapped"

\* utils/towTruckSelection: category -> rate table row
HasPricing(towTruckType) == towTruckType = "Standard"

getTowTruckPricing(towTruckType) ==
  [perKm |-> StandardPerKm, basePrice |-> StandardBasePrice]

\* BookingForm.jsx calculateTotalCost, as a function of the state it reads
calculateTotalCost(vehicleSize, dist) ==
  LET towTruckType == getTowTruckType(vehicleSize)
      p == getTowTruckPricing(towTruckType)
  IN IF HasPricing(towTruckType)
       THEN p.basePrice + (dist * p.perKm * 2)
       ELSE NoCost

\* values the map component may hand to setTotalCost
MapCosts == {calculateTotalCost("Medium", d) : d \in 0..MaxDistance}

\* ---------------------------------------------------------------- form
InitialFormData(t) == [vehicleSize |-> "", pickupDateTime |-> t]

generateTestData(t) == [vehicleSize |-> "Medium", pickupDateTime |-> t]

validateForm(fd) == TRUE

IdleRun ==
  [id |-> 0, pc |-> "idle", outcome |-> "none", failedAt |-> "none",
   startTime |-> 0, session |-> "none", isTestMode |-> FALSE,
   formData |-> InitialFormData(0), distance |-> 0, totalCost |-> 0,
   payCalls |-> 0, gateway |-> "none", dynamicKey |-> 0, serviceId |-> 0,
   notified |-> "none", errorToasts |-> 0, successToasts |-> 0,
   prevOutcome |-> "none", prevKey |-> 0]

IdleAdmin ==
  [pc |-> "idle", op |-> "none", id |-> 0, status |-> "none", retries |-> 0,
   attempts |-> 0, waits |-> <<>>, errors |-> <<>>, result |-> "none",
   thrown |-> [attempts |-> 0, last |-> "none"]]

Init ==
  /\ now = 0
  /\ page = "booking"
  /\ session = "none"
  /\ stripeReady = FALSE
  /\ formData = InitialFormData(0)
  /\ isLoading = FALSE
  /\ distance = 0
  /\ totalCost = 0
  /\ isTestMode = FALSE
  /\ costEffectPending = TRUE
  /\ run = IdleRun
  /\ nextRun = 0
  /\ services = {}
  /\ bookings = {}
  /\ nextId = 1
  /\ nextKey = 1
  /\ admin = IdleAdmin
  /\ adminCalls = 0

\* ---------------------------------------------------------------- environment
Tick ==
  /\ now < MaxTime
  /\ now' = now + 1
  /\ UNCHANGED <<page, session, stripeReady, formVars, isLoading, run, nextRun,
                 storeVars, nextKey, adminVars>>

Login ==
  /\ session = "none"
  /\ session' = "u1"
  /\ UNCHANGED <<now, page, stripeReady, formVars, isLoading, run, nextRun,
                 storeVars, nextKey, adminVars>>

Logout ==
  /\ session # "none"
  /\ session' = "none"
  /\ UNCHANGED <<now, page, stripeReady, formVars, isLoading, run, nextRun,
                 storeVars, nextKey, adminVars>>

StripeLoaded ==
  /\ ~stripeReady
  /\ stripeReady' = TRUE
  /\ UNCHANGED <<now, page, session, formVars, isLoading, run, nextRun,
                 storeVars, nextKey, adminVars>>

\* the user comes back to /booking: the component is mounted afresh
Remount ==
  /\ page # "booking"
  /\ page' = "booking"
  /\ formData' = InitialFormData(now)
  /\ isLoading' = FALSE
  /\ distance' = 0
  /\ totalCost' = 0
  /\ isTestMode' = FALSE
  /\ costEffectPending' = TRUE
  /\ UNCHANGED <<envVars, run, nextRun, storeVars, nextKey, adminVars>>

\* ---------------------------------------------------------------- editing
handleChangeVehicleSize(v) ==
  /\ page = "booking"
  /\ v # formData.vehicleSize
  /\ formData' = [formData EXCEPT !.vehicleSize = v]
  /\ costEffectPending' = TRUE
  /\ UNCHANGED <<envVars, page, isLoading, distance, totalCost, isTestMode, run,
                 nextRun, storeVars, nextKey, adminVars>>

handleDateTimeChange(d) ==
  /\ page = "booking"
  /\ d # formData.pickupDateTime
  /\ formData' = [formData EXCEPT !.pickupDateTime = d]
  /\ UNCHANGED <<envVars, page, isLoading, distance, totalCost, isTestMode,
                 costEffectPending, run, nextRun, storeVars, nextKey, adminVars>>

\* setIsTestMode(v) and the [isTestMode] effect that follows it
setIsTestMode(v) ==
  /\ page = "booking"
  /\ v # isTestMode
  /\ isTestMode' = v
  /\ formData' = IF v THEN generateTestData(now) ELSE formData
  /\ costEffectPending' = (costEffectPending \/ formData'.vehicleSize # formData.vehicleSize)
  /\ UNCHANGED <<envVars, page, isLoading, distance, totalCost, run, nextRun,
                 storeVars, nextKey, adminVars>>

\* GoogleMapsRoute calls the setDistance prop
setDistance(d) ==
  /\ page = "booking"
  /\ d # distance
  /\ distance' = d
  /\ costEffectPending' = TRUE
  /\ UNCHANGED <<envVars, page, isLoading, formData, totalCost, isTestMode, run,
                 nextRun, storeVars, nextKey, adminVars>>

\* GoogleMapsRoute calls the setTotalCost prop
setTotalCost(c) ==
  /\ page = "booking"
  /\ c # totalCost
  /\ totalCost' = c
  /\ UNCHANGED <<envVars, page, isLoading, formData, distance, isTestMode,
                 costEffectPending, run, nextRun, storeVars, nextKey, adminVars>>

\* useEffect(() => setTotalCost(calculateTotalCost()), [distance, formData.vehicleSize])
CostEffect ==
  /\ page = "booking"
  /\ costEffectPending
  /\ totalCost' = calculateTotalCost(formData.vehicleSize, distance)
  /\ costEffectPending' = FALSE
  /\ UNCHANGED <<envVars, page, isLoading, formData, distance, isTestMode, run,
                 nextRun, storeVars, nextKey, adminVars>>

\* ---------------------------------------------------------------- submit flow
\* handleBookingProcess, BookingForm.jsx:124-202.  One action per synchronous
\* stretch of the handler; the handler reads the state of the render it was
\* created in, which the run record keeps.

\* the guard with the negation of the test-mode flag lost
needsLogin_flagInverted(sess, testMode) == sess = "none" /\ testMode

\* line 130: if (!session && !isTestMode)
needsLogin(sess, testMode) == sess = "none" /\ ~testMode

\* line 135: if (!stripe || !elements)
stripeMissing(ready) == ~ready

\* the gateway's error is not looked at
paymentRejected_ignored(stripeError) == FALSE

\* line 146: if (stripeError) throw
paymentRejected(stripeError) == stripeError

bookingStatus(testMode) == IF testMode THEN "test_mode" ELSE "pending"

userIdOf(sess) == IF sess # "none" THEN sess ELSE "test_user"

\* one key generated when the component mounts and used by every run
uuidv4_reused(issued) == 1

\* line 150: uuidv4(), a value no earlier call returned
uuidv4(issued) == issued

CanSubmitWithin(limit) ==
  /\ page = "booking"
  /\ ~isLoading
  /\ nextRun < limit
  /\ validateForm(formData)

CanSubmit == CanSubmitWithin(MaxRuns)

\* the run that starts now; prevOutcome and prevKey remember how the run
\* before it ended and the dynamic key it had issued
StartedRun ==
  [IdleRun EXCEPT !.id = nextRun + 1, !.startTime = now, !.session = session,
                  !.isTestMode = isTestMode, !.formData = formData,
                  !.distance = distance, !.totalCost = totalCost,
                  !.prevOutcome = run.outcome, !.prevKey = run.dynamicKey]

\* a catch block that starts the charge again after a store or notification failure
failRun_retriesCharge(r, step) ==
  IF step \in {"service", "booking", "notify"}
    THEN [r EXCEPT !.pc = "awaitPayment", !.payCalls = @ + 1]
    ELSE [r EXCEPT !.pc = "done", !.outcome = "failed", !.failedAt = step,
                   !.errorToasts = @ + 1]

\* the catch block (one error toast) followed by finally
failRun(r, step) ==
  [r EXCEPT !.pc = "done", !.outcome = "failed", !.failedAt = step,
            !.errorToasts = @ + 1]

\* lines 128-133: no session and no test mode: redirect to /login, finally
SubmitLoginRedirectWithin(limit) ==
  /\ CanSubmitWithin(limit)
  /\ needsLogin(session, isTestMode)
  /\ run' = [StartedRun EXCEPT !.pc = "done", !.outcome = "login"]
  /\ nextRun' = nextRun + 1
  /\ page' = "login"
  /\ isLoading' = FALSE
  /\ UNCHANGED <<envVars, formVars, storeVars, nextKey, adminVars>>

SubmitLoginRedirect == SubmitLoginRedirectWithin(MaxRuns)

\* lines 135-137: the payment SDK is not initialised: throw, catch, finally
SubmitStripeMissingWithin(limit) ==
  /\ CanSubmitWithin(limit)
  /\ ~needsLogin(session, isTestMode)
  /\ stripeMissing(stripeReady)
  /\ run' = failRun(StartedRun, "stripeInit")
  /\ nextRun' = nextRun + 1
  /\ isLoading' = FALSE
  /\ UNCHANGED <<envVars, page, formVars, storeVars, nextKey, adminVars>>

SubmitStripeMissing == SubmitStripeMissingWithin(MaxRuns)

\* lines 139-144: stripe.confirmPayment is called and awaited
SubmitConfirmPaymentWithin(limit) ==
  /\ CanSubmitWithin(limit)
  /\ ~needsLogin(session, isTestMode)
  /\ ~stripeMissing(stripeReady)
  /\ run' = [StartedRun EXCEPT !.pc = "awaitPayment", !.payCalls = @ + 1]
  /\ nextRun' = nextRun + 1
  /\ isLoading' = TRUE
  /\ UNCHANGED <<envVars, page, formVars, storeVars, nextKey, adminVars>>

SubmitConfirmPayment == SubmitConfirmPaymentWithin(MaxRuns)

\* lines 146-159: the gateway answers; on success the Service insert is issued
PaymentResult(stripeError) ==
  /\ run.pc = "awaitPayment"
  /\ LET r == [run EXCEPT !.gateway = IF stripeError THEN "error" ELSE "ok"] IN
     IF paymentRejected(stripeError)
       THEN /\ run' = failRun(r, "payment")
            /\ isLoading' = FALSE
            /\ UNCHANGED nextKey
       ELSE /\ run' = [r EXCEPT !.pc = "awaitService", !.dynamicKey = uuidv4(nextKey)]
            /\ nextKey' = nextKey + 1
            /\ UNCHANGED isLoading
  /\ UNCHANGED <<envVars, page, formVars, nextRun, storeVars, adminVars>>

\* lines 151-176: the store answers the Service insert; on success the Booking
\* insert is issued
ServiceInsertResult(serviceError) ==
  /\ run.pc = "awaitService"
  /\ IF serviceError
       THEN /\ run' = failRun(run, "service")
            /\ isLoading' = FALSE
            /\ UNCHANGED storeVars
       ELSE /\ services' = services \cup
                 {[id |-> nextId, user_id |-> userIdOf(run.session),
                   dynamic_key |-> run.dynamicKey,
                   status |-> bookingStatus(run.isTestMode), run |-> run.id]}
            /\ nextId' = nextId + 1
            /\ run' = [run EXCEPT !.pc = "awaitBooking", !.serviceId = nextId]
            /\ UNCHANGED <<bookings, isLoading>>
  /\ UNCHANGED <<envVars, page, formVars, nextRun, nextKey, adminVars>>

\* a row that does not take the identifier the Service insert returned
bookingData_unlinked(r) ==
  [vehicleSize |-> r.formData.vehicleSize,
   distance |-> r.distance, totalCost |-> r.totalCost,
   status |-> bookingStatus(r.isTestMode), serviceId |-> 0,
   dynamicKey |-> r.dynamicKey, isTestMode |-> r.isTestMode, run |-> r.id]

\* the row built at lines 163-174 (the fields the properties below read)
bookingData(r) ==
  [vehicleSize |-> r.formData.vehicleSize,
   distance |-> r.distance, totalCost |-> r.totalCost,
   status |-> bookingStatus(r.isTestMode), serviceId |-> r.serviceId,
   dynamicKey |-> r.dynamicKey, isTestMode |-> r.isTestMode, run |-> r.id]

StoredBooking(id, data) ==
  [id |-> id, vehicleSize |-> data.vehicleSize,
   distance |-> data.distance, totalCost |-> data.totalCost, status |-> data.status,
   serviceId |-> data.serviceId, dynamicKey |-> data.dynamicKey,
   isTestMode |-> data.isTestMode, run |-> data.run]

\* lines 176-179: the store answers the Booking insert; on success
\* sendAdminNotification is called and awaited
BookingInsertResult(error) ==
  /\ run.pc = "awaitBooking"
  /\ IF error
       THEN /\ run' = failRun(run, "booking")
            /\ isLoading' = FALSE
            /\ UNCHANGED storeVars
       ELSE /\ bookings' = bookings \cup {StoredBooking(nextId, bookingData(run))}
            /\ nextId' = nextId + 1
            /\ run' = [run EXCEPT !.pc = "awaitNotify"]
            /\ UNCHANGED <<services, isLoading>>
  /\ UNCHANGED <<envVars, page, formVars, nextRun, nextKey, adminVars>>

\* utils/adminNotification sendAdminNotification: settles or rejects
NotificationOutcomes == {"sent", "rejected"}

\* lines 179-201: the notification settles: success toast and navigation, or
\* the catch block; then finally
NotifyResult(outcome) ==
  /\ run.pc = "awaitNotify"
  /\ LET r == [run EXCEPT !.notified = outcome] IN
     IF outcome = "rejected"
       THEN /\ run' = failRun(r, "notify")
            /\ UNCHANGED page
       ELSE /\ run' = [r EXCEPT !.pc = "done", !.outcome = "confirmed",
                                !.successToasts = @ + 1]
            /\ page' = "confirmation"
  /\ isLoading' = FALSE
  /\ UNCHANGED <<envVars, formVars, nextRun, storeVars, nextKey, adminVars>>

EnvNext ==
  \/ Tick
  \/ Login
  \/ Logout
  \/ StripeLoaded

FlowNext ==
  \/ \E e \in BOOLEAN : PaymentResult(e)
  \/ \E e \in BOOLEAN : ServiceInsertResult(e)
  \/ \E e \in BOOLEAN : BookingInsertResult(e)
  \/ \E o \in NotificationOutcomes : NotifyResult(o)
  \/ Remount

\* The booking page with its authentication, test-mode, payment and clock
\* environment; no route has been drawn on the map.
Next ==
  \/ EnvNext
  \/ \E d \in 0..MaxTime : handleDateTimeChange(d)
  \/ \E v \in BOOLEAN : setIsTestMode(v)
  \/ CostEffect
  \/ SubmitLoginRedirect
  \/ SubmitStripeMissing
  \/ SubmitConfirmPayment
  \/ FlowNext

Spec == Init /\ [][Next]_vars

\* The booking page of a signed-in user with the payment SDK loaded: route and
\* vehicle-size edits, the map's callbacks, the pricing effect, and submit.
InitPricing ==
  /\ now = 0
  /\ page = "booking"
  /\ session = "u1"
  /\ stripeReady = TRUE
  /\ formData = InitialFormData(0)
  /\ isLoading = FALSE
  /\ distance = 0
  /\ totalCost = 0
  /\ isTestMode = FALSE
  /\ costEffectPending = TRUE
  /\ run = IdleRun
  /\ nextRun = 0
  /\ services = {}
  /\ bookings = {}
  /\ nextId = 1
  /\ nextKey = 1
  /\ admin = IdleAdmin
  /\ adminCalls = 0

NextPricing ==
  \/ \E v \in VehicleSizes : handleChangeVehicleSize(v)
  \/ \E d \in 0..MaxDistance : setDistance(d)
  \/ \E c \in MapCosts : setTotalCost(c)
  \/ CostEffect
  \/ SubmitConfirmPayment
  \/ FlowNext

SpecPricing == InitPricing /\ [][NextPricing]_vars

\* The booking page over several submissions: sign-in, SDK load, test mode,
\* every way a run of handleBookingProcess ends, and the submissions after it.
NextResubmit ==
  \/ Login
  \/ StripeLoaded
  \/ \E v \in BOOLEAN : setIsTestMode(v)
  \/ SubmitLoginRedirectWithin(MaxAttempts)
  \/ SubmitStripeMissingWithin(MaxAttempts)
  \/ SubmitConfirmPaymentWithin(MaxAttempts)
  \/ FlowNext

SpecResubmit == Init /\ [][NextResubmit]_vars

\* ---------------------------------------------------------------- admin query layer
\* useBookings.js:25-117.  admin holds one call of handleSupabaseError: the
\* wrapped operation, its arguments, the loop counter and what the caller has
\* observed so far (invocations, waits, errors).

StoreErrors == {"timeout", "conflict"}

BookingStatuses == {"pending", "paid", "test_mode"}

\* line 29: while (retries < maxRetries)
loopContinues(retries) == retries < maxRetries

\* the exhaustion test off by one
exhausted_offByOne(retries) == retries > maxRetries

\* line 36: if (retries === maxRetries)
exhausted(retries) == retries = maxRetries

\* line 39: setTimeout(resolve, 1000 * retries)
backoffDelay(retries) == backoffMs * retries

\* line 37: new Error(`Failed after ${maxRetries} attempts: ${error.message}`)
failedAfter(message) == [attempts |-> maxRetries, last |-> message]

AdminFree == admin.pc \in {"idle", "returned", "thrown"}

startCall(op, id, status) ==
  /\ AdminFree
  /\ adminCalls < MaxAdminCalls
  /\ admin' = [IdleAdmin EXCEPT !.pc = "attempt", !.op = op, !.id = id,
                                !.status = status]
  /\ adminCalls' = adminCalls + 1
  /\ UNCHANGED <<envVars, page, formVars, isLoading, run, nextRun, storeVars, nextKey>>

\* createBooking(bookingData)
createBooking(status) == startCall("create", 0, status)

\* updateBooking(id, bookingData)
updateBooking(id, status) == startCall("update", id, status)

\* deleteBooking(id)
deleteBooking(id) == startCall("delete", id, "none")

adminBookingData(status) ==
  [vehicleSize |-> "Medium", distance |-> 0,
   totalCost |-> calculateTotalCost("Medium", 0), status |-> status,
   serviceId |-> 0, dynamicKey |-> 0, isTestMode |-> FALSE, run |-> 0]

\* the store call inside the wrapped operation, when the store accepts it
applyOperation(a) ==
  CASE a.op = "create" ->
         /\ bookings' = bookings \cup {StoredBooking(nextId, adminBookingData(a.status))}
         /\ nextId' = nextId + 1
    [] a.op = "update" ->
         /\ bookings' = {IF b.id = a.id THEN [b EXCEPT !.status = a.status] ELSE b :
                           b \in bookings}
         /\ UNCHANGED nextId
    [] a.op = "delete" ->
         /\ bookings' = {b \in bookings : b.id # a.id}
         /\ UNCHANGED nextId

\* lines 30-39: one await operation() settles: return, rethrow or back off
OperationSettles(outcome) ==
  /\ admin.pc = "attempt"
  /\ IF outcome = "ok"
       THEN /\ applyOperation(admin)
            /\ admin' = [admin EXCEPT !.pc = "returned", !.attempts = @ + 1,
                                      !.result = "ok"]
       ELSE /\ UNCHANGED <<bookings, nextId>>
            /\ LET r == admin.retries + 1 IN
               admin' = IF exhausted(r)
                 THEN [admin EXCEPT !.pc = "thrown", !.attempts = @ + 1,
                                    !.retries = r, !.errors = Append(@, outcome),
                                    !.thrown = failedAfter(outcome)]
                 ELSE [admin EXCEPT !.pc = "wait", !.attempts = @ + 1,
                                    !.retries = r, !.errors = Append(@, outcome),
                                    !.waits = Append(@, backoffDelay(r))]
  /\ UNCHANGED <<envVars, page, formVars, isLoading, run, nextRun, services, nextKey,
                 adminCalls>>

\* the timer of line 39 fires and the loop condition is evaluated again
BackoffElapsed ==
  /\ admin.pc = "wait"
  /\ admin' = [admin EXCEPT !.pc = IF loopContinues(admin.retries)
                                     THEN "attempt" ELSE "returned"]
  /\ UNCHANGED <<envVars, page, formVars, isLoading, run, nextRun, storeVars, nextKey,
                 adminCalls>>

AdminNext ==
  \/ \E st \in BookingStatuses : createBooking(st)
  \/ \E id \in 1..(nextId - 1), st \in BookingStatuses : updateBooking(id, st)
  \/ \E id \in 1..(nextId - 1) : deleteBooking(id)
  \/ \E o \in StoreErrors \cup {"ok"} : OperationSettles(o)
  \/ BackoffElapsed

\* The admin panel working on the store while a signed-in user (or a tester)
\* submits bookings.
InitAdmin ==
  /\ now = 0
  /\ page = "booking"
  /\ session = "u1"
  /\ stripeReady = TRUE
  /\ formData = generateTestData(0)
  /\ isLoading = FALSE
  /\ distance = 0
  /\ totalCost = calculateTotalCost("Medium", 0)
  /\ isTestMode \in BOOLEAN
  /\ costEffectPending = FALSE
  /\ run = IdleRun
  /\ nextRun = 0
  /\ services = {}
  /\ bookings = {}
  /\ nextId = 1
  /\ nextKey = 1
  /\ admin = IdleAdmin
  /\ adminCalls = 0

NextAdmin ==
  \/ AdminNext
  \/ Remount
  \/ SubmitConfirmPayment
  \/ \E e \in BOOLEAN : PaymentResult(e)
  \/ \E e \in BOOLEAN : ServiceInsertResult(e)
  \/ \E e \in BOOLEAN : BookingInsertResult(e)
  \/ \E o \in NotificationOutcomes : NotifyResult(o)

SpecAdmin == InitAdmin /\ [][NextAdmin]_vars

\* ---------------------------------------------------------------- properties
\* the rows a collection holds for the current run of handleBookingProcess
RunRows(collection) == {r \in collection : r.run = run.id}

\* C1: when confirmPayment returns an error, the run inserts no Service row and
\* no Booking row, and it ends in the failure branch (one error toast, no
\* success toast).
C1_RejectedPaymentInsertsNothing ==
  run.gateway = "error" =>
    /\ run.pc = "done"
    /\ run.outcome = "failed"
    /\ run.failedAt = "payment"
    /\ run.errorToasts = 1
    /\ run.successToasts = 0
    /\ RunRows(services) = {}
    /\ RunRows(bookings) = {}

C1_Witness ==
  /\ run.id >= 1
  /\ run.gateway = "error"
  /\ run.pc = "done"

\* C2: a run that reaches Confirmed has inserted exactly one Service row and
\* exactly one Booking row; the Booking row's serviceId is the id the Service
\* insert returned, and both rows carry the run's dynamic key.
C2_ConfirmedRunHasOneLinkedPair ==
  run.outcome = "confirmed" =>
    /\ run.successToasts = 1
    /\ Cardinality(RunRows(services)) = 1
    /\ Cardinality(RunRows(bookings)) = 1
    /\ \A s \in RunRows(services), b \in RunRows(bookings) :
         /\ s.id = run.serviceId
         /\ b.serviceId = s.id
         /\ s.dynamic_key = run.dynamicKey
         /\ b.dynamicKey = s.dynamic_key

C2_Witness ==
  /\ run.id >= 1
  /\ run.outcome = "confirmed"
  /\ page = "confirmation"
  /\ RunRows(bookings) # {}

\* C3: when both inserts succeeded and sendAdminNotification fails, the run
\* still ends Confirmed: success toast, navigation to /confirmation, no error
\* toast, and the Booking row stays in the store.
C3_NotificationFailureKeepsSuccess ==
  run.notified = "rejected" =>
    /\ run.outcome = "confirmed"
    /\ run.successToasts = 1
    /\ run.errorToasts = 0
    /\ RunRows(bookings) # {}

\* C4: a run started in test mode makes no call to stripe.confirmPayment and
\* does not fail on a payment SDK that is not initialised.
C4_TestModeBypassesPayment ==
  (run.id >= 1 /\ run.isTestMode) =>
    /\ run.payCalls = 0
    /\ run.failedAt # "stripeInit"

\* C5: a run started without a session and outside test mode calls no gateway
\* and writes no row, it only redirects to /login; and every row written by a
\* non-test run carries the user id of a session.
C5_NoSessionNoTestModeWritesNothing ==
  /\ (run.id >= 1 /\ run.session = "none" /\ ~run.isTestMode) =>
       /\ run.pc = "done"
       /\ run.outcome = "login"
       /\ run.payCalls = 0
       /\ run.errorToasts = 0
       /\ RunRows(services) = {}
       /\ RunRows(bookings) = {}
  /\ \A s \in services : s.status # "test_mode" => s.user_id # "test_user"
  /\ \A b \in bookings : ~b.isTestMode =>
       \E s \in services : s.id = b.serviceId /\ s.user_id # "test_user"

C5_Witness ==
  /\ run.id >= 1
  /\ run.session = "none"
  /\ ~run.isTestMode
  /\ run.outcome = "login"
  /\ page = "login"

\* C6: a run makes zero or one charge attempt: confirmPayment is not called
\* again whatever step fails afterwards.
C6_AtMostOneChargeAttempt ==
  /\ run.payCalls <= 1
  /\ run.pc \in {"awaitPayment", "awaitService", "awaitBooking", "awaitNotify"}
       => run.payCalls = 1
  /\ run.failedAt \in {"payment", "service", "booking", "notify"} => run.payCalls = 1

C6_Witness ==
  /\ run.failedAt \in {"service", "booking", "notify"}
  /\ run.pc = "done"
  /\ run.payCalls = 1

\* C7: handleSupabaseError invokes the operation at most 3 times; a successful
\* attempt (also the 3rd after 2 failures) returns its result and ends the
\* call; 3 failures raise an error carrying the count 3 and the last
\* underlying error; the wait before attempt k+1 is k seconds and no wait
\* follows the final failure.
C7_BoundedRetry ==
  /\ admin.attempts <= 3
  /\ Len(admin.waits) <= 2
  /\ \A k \in 1..Len(admin.waits) : admin.waits[k] = 1000 * k
  /\ admin.pc = "attempt" => Len(admin.waits) = admin.attempts
  /\ admin.pc = "wait" => Len(admin.waits) = admin.attempts
  /\ admin.pc = "returned" =>
       /\ admin.result = "ok"
       /\ admin.attempts = Len(admin.errors) + 1
       /\ Len(admin.waits) = Len(admin.errors)
  /\ admin.pc = "thrown" =>
       /\ admin.attempts = 3
       /\ admin.result = "none"
       /\ admin.thrown = [attempts |-> 3, last |-> admin.errors[3]]
       /\ admin.waits = <<1000, 2000>>

C7_Witness ==
  /\ admin.pc = "thrown"
  /\ admin.attempts = 3
  /\ admin.errors[2] # admin.errors[3]

\* C8: a run whose pickup date-time lies in the past ends before any network
\* call: no gateway call, no Service insert, no Booking insert.
C8_PastPickupIsRejected ==
  (run.id >= 1 /\ run.formData.pickupDateTime < run.startTime) =>
    /\ run.payCalls = 0
    /\ RunRows(services) = {}
    /\ RunRows(bookings) = {}

\* C9: every Booking row the submit flow inserted carries
\* totalCost = basePrice + distance * perKm * 2 for the category resolved from
\* the row's vehicle size.
C9_StoredCostFollowsFormula ==
  \A b \in bookings :
    (b.run # 0 /\ HasPricing(getTowTruckType(b.vehicleSize))) =>
      b.totalCost = getTowTruckPricing(getTowTruckType(b.vehicleSize)).basePrice
                    + b.distance * getTowTruckPricing(getTowTruckType(b.vehicleSize)).perKm * 2

\* C10: a Booking's status only changes pending -> paid or pending -> test_mode,
\* and only pending, paid and test_mode are ever stored.
C10_StatusOnlyMovesForward ==
  [][ /\ \A c \in bookings' : c.status \in {"pending", "paid", "test_mode"}
      /\ \A b \in bookings, c \in bookings' :
           (c.id = b.id /\ c.status # b.status) =>
             (b.status = "pending" /\ c.status \in {"paid", "test_mode"}) ]_vars

\* C11: whenever no submission is in flight, every Service row has exactly one
\* Booking row carrying its identifier, or it has been rolled back or recorded
\* as an orphan.  The handler has neither a compensating delete nor an orphan
\* record, so a Service row is covered only by its Booking row.
C11_ServiceRowsArePaired ==
  run.pc \in {"idle", "done"} =>
    \A s \in services : Cardinality({b \in bookings : b.serviceId = s.id}) = 1

\* C12: however a run of handleBookingProcess ends, isLoading is false again;
\* a failed run has shown exactly one failure message (and a redirected or
\* confirmed run none); and the dynamic key of a submission made after a failed
\* one differs from the key of the failed attempt.
C12_RunEndsEditableWithFreshKey ==
  /\ run.pc = "done" => ~isLoading
  /\ run.pc = "done" => run.outcome \in {"login", "failed", "confirmed"}
  /\ run.outcome = "failed" => (run.errorToasts = 1 /\ run.successToasts = 0)
  /\ run.outcome \in {"login", "confirmed"} => run.errorToasts = 0
  /\ (run.prevOutcome = "failed" /\ run.dynamicKey # 0) => run.dynamicKey # run.prevKey

C12_Witness ==
  /\ run.prevOutcome = "failed"
  /\ run.prevKey # 0
  /\ run.outcome = "failed"
  /\ run.dynamicKey # 0
  /\ run.pc = "done"
  /\ ~isLoading

====
